---- MODULE Spec2Model ----
(***************************************************************************)
(* Wheel cache of pipenv's patched pip                                     *)
(* (pipenv/patched/notpip/_internal/cache.py): Cache, SimpleWheelCache,    *)
(* EphemWheelCache and WheelCache, over a filesystem of shard directories. *)
(*                                                                         *)
(* Python values are modelled as follows.  A str is a TLA+ string.  An     *)
(* Optional value is a tuple of length 0 (None) or 1 (the value).  A Link  *)
(* object is a record whose field oid is the object's identity ("is").     *)
(* An exception is the name of its errno / class; "" is "nothing raised".  *)
(***************************************************************************)
EXTENDS Integers, Sequences, FiniteSets, TLC

None == <<>>
Some(v) == <<v>>

(***************************************************************************)
(* Bounds of the model.                                                    *)
(***************************************************************************)
\* at most this many directory entries in the whole filesystem
MaxEntries == 3
\* at most this many shard paths that are not simply missing
MaxDirs == 2

(***************************************************************************)
(* str helpers.                                                            *)
(***************************************************************************)
\* printable ASCII in three runs: "#".."[" (35..91), "]".."_" (93..95) and
\* "a".."~" (97..126)
AsciiRuns ==
    << [first |-> 35, chars |-> "#$%&'()*+,-./0123456789:;<=>?@ABCDEFGHIJKLMNOPQRSTUVWXYZ["],
       [first |-> 93, chars |-> "]^_"],
       [first |-> 97, chars |-> "abcdefghijklmnopqrstuvwxyz{|}~"] >>

CharAt(s, i) == SubSeq(s, i, i)

\* the code point of every character of the runs
CodePoints ==
    [c \in UNION {{CharAt(AsciiRuns[k].chars, i) : i \in 1..Len(AsciiRuns[k].chars)} : k \in 1..3} |->
        LET r == CHOOSE k \in 1..3 : \E i \in 1..Len(AsciiRuns[k].chars) : CharAt(AsciiRuns[k].chars, i) = c
            i == CHOOSE j \in 1..Len(AsciiRuns[r].chars) : CharAt(AsciiRuns[r].chars, j) = c
        IN AsciiRuns[r].first + i - 1]

\* ord(c) of a one-character str
Ord(c) == CodePoints[c]

\* chr(o) of a code point of the runs above
Chr(o) ==
    LET r == CHOOSE k \in 1..3 : o >= AsciiRuns[k].first /\ o < AsciiRuns[k].first + Len(AsciiRuns[k].chars)
    IN CharAt(AsciiRuns[r].chars, o - AsciiRuns[r].first + 1)

\* str.__lt__ of Python: code point order, a proper prefix is smaller
RECURSIVE StrLess(_, _)
StrLess(a, b) ==
    IF b = "" THEN FALSE
    ELSE IF a = "" THEN TRUE
    ELSE IF CharAt(a, 1) = CharAt(b, 1) THEN StrLess(Tail(a), Tail(b))
    ELSE Ord(CharAt(a, 1)) < Ord(CharAt(b, 1))

\* str.lower() of one character
LowerChar(c) ==
    LET o == Ord(c) IN IF o >= 65 /\ o <= 90 THEN Chr(o + 32) ELSE c

\* re.sub(r"[-_.]+", "-", name).lower() from the i-th character on
RECURSIVE canonicalize_from(_, _, _)
canonicalize_from(name, i, inRun) ==
    IF i > Len(name) THEN ""
    ELSE LET c == CharAt(name, i) IN
         IF c \in {"-", "_", "."}
         THEN (IF inRun THEN "" ELSE "-") \o canonicalize_from(name, i + 1, TRUE)
         ELSE LowerChar(c) \o canonicalize_from(name, i + 1, FALSE)

\* posixpath.join(a, b)
os_path_join2(a, b) ==
    IF Len(b) > 0 /\ CharAt(b, 1) = "/" THEN b
    ELSE IF a = "" \/ CharAt(a, Len(a)) = "/" THEN a \o b
    ELSE a \o "/" \o b

\* os.path.join(a, *parts)
RECURSIVE os_path_join(_, _)
os_path_join(a, parts) ==
    IF parts = <<>> THEN a ELSE os_path_join(os_path_join2(a, Head(parts)), Tail(parts))

(***************************************************************************)
(* Collaborators of the cache that live outside cache.py.                  *)
(***************************************************************************)
\* the invoking user's home directory
Home == "/home/u"

\* utils.compat.expanduser: a leading "~" becomes the home directory
expanduser(path) ==
    IF path = "~" THEN Home
    ELSE IF Len(path) >= 2 /\ SubSeq(path, 1, 2) = "~/"
         THEN Home \o SubSeq(path, 2, Len(path))
         ELSE path

\* the directory TempDirectory(kind="ephem-wheel-cache") creates
TempDirPath == "/tmp/pip-ephem-wheel-cache-x"

\* FormatControl.get_allowed_formats(canonical_name)
get_allowed_formats(format_control, canonical_name) ==
    IF canonical_name \in format_control.only_binary THEN {"binary"}
    ELSE IF canonical_name \in format_control.no_binary THEN {"source"}
    ELSE IF ":all:" \in format_control.only_binary THEN {"binary"}
    ELSE IF ":all:" \in format_control.no_binary THEN {"source"}
    ELSE {"binary", "source"}

\* utils.urls.path_to_url of an absolute, normalised path
path_to_url(path) == "file://" \o path

\* Link.path of a file: URL
LinkPath(link) == SubSeq(link.url_without_fragment, 8, Len(link.url_without_fragment))

\* Pep425Tag triples
py2 == <<"py2", "none", "any">>
py3 == <<"py3", "none", "any">>

\* The names a shard directory may hold, in str order.
FileNames ==
    { "README",
      "pkg-1.0-py2-none-any.whl",
      "pkg-1.0-py2.py3-none-any.whl",
      "pkg-1.0-py3-none-any.whl" }

\* Wheel(filename): None stands for InvalidWheelFilename, else the wheel's
\* file_tags (pyversions x abis x plats of the parsed name)
Wheel(filename) ==
    CASE filename = "pkg-1.0-py2-none-any.whl" -> Some({py2})
      [] filename = "pkg-1.0-py2.py3-none-any.whl" -> Some({py2, py3})
      [] filename = "pkg-1.0-py3-none-any.whl" -> Some({py3})
      [] OTHER -> None

\* Wheel.supported(tags): bool(set(tags).intersection(self.file_tags))
supported(file_tags, tags) ==
    {tags[i] : i \in 1..Len(tags)} \cap file_tags # {}

\* tags.index(c), zero-based
ListIndex(tags, c) ==
    (CHOOSE i \in 1..Len(tags) : tags[i] = c /\ \A j \in 1..(i - 1) : tags[j] # c) - 1

\* Wheel.support_index_min(tags): min(tags.index(c) for c in file_tags if c in tags)
support_index_min(file_tags, tags) ==
    LET idx == {ListIndex(tags, c) : c \in {t \in file_tags : \E i \in 1..Len(tags) : tags[i] = t}}
    IN CHOOSE m \in idx : \A n \in idx : m <= n

\* hashlib.sha224(key.encode()).hexdigest() of the key URLs of the model
sha224_hexdigest(key_url) ==
    CASE key_url = "http://h/p.tgz" ->
           "0cc726fc82f3aac7d61843419c0eb0744bd630657d560bd56e8ddac8"
      [] key_url = "http://h/p.tgz#sha256=ab12" ->
           "d86698ce0b3ee914b15f0fd693c70e73a7ef0ddcb7d599f300ec81ed"
      [] key_url = "http://h/p.tgz#md5=ab12" ->
           "dba4a33d42ccf1fbe0e466685b792a6135b9d8cf9f66518f4e016356"
      [] key_url = "http://h/p.tgz#sha256=cd34" ->
           "3ed3916c92bc89ecdb227338eec1af03b912a9e61644292658ad90f5"
      [] key_url = "http://h/q.tgz" ->
           "85fb36a34e81623a279c79ac6f70b4c870141d87414bfc6eb359dc5e"
      [] key_url = "http://h/q.tgz#sha256=ab12" ->
           "9aad06526236463778d16ad7dfa6d6a9b24d9840ef925ac8eaa8c971"


(***************************************************************************)
(* The inputs of the model.                                                *)
(***************************************************************************)
\* Link objects the callers hold; oid is the identity of the object
L1 == [oid |-> 1, url_without_fragment |-> "http://h/p.tgz",
       hash_name |-> None, hash |-> None]
L2 == [oid |-> 2, url_without_fragment |-> "http://h/p.tgz",
       hash_name |-> Some("sha256"), hash |-> Some("ab12")]
Links == {L1, L2}
LinkArgs == {None} \cup {Some(l) : l \in Links}

\* (url_without_fragment, hash_name, hash) of the links whose keys are derived:
\* Link takes hash_name and hash from one match of the URL, both or neither
KeyTriples ==
    { <<"http://h/p.tgz", None, None>>,
      <<"http://h/p.tgz", Some("sha256"), Some("ab12")>>,
      <<"http://h/p.tgz", Some("md5"), Some("ab12")>>,
      <<"http://h/p.tgz", Some("sha256"), Some("cd34")>>,
      <<"http://h/q.tgz", None, None>>,
      <<"http://h/q.tgz", Some("sha256"), Some("ab12")>> }

\* two Link objects of every triple
KeyLinks ==
    {[oid |-> o, url_without_fragment |-> t[1], hash_name |-> t[2], hash |-> t[3]] :
        o \in {1, 2}, t \in KeyTriples}

\* the identity of the object a call of Link(...) allocates: none of the
\* callers' links
FreshOid == 1 + Cardinality(Links)

\* Link(url) of a URL without fragment
Link(url) ==
    [oid |-> FreshOid, url_without_fragment |-> url, hash_name |-> None, hash |-> None]

\* "Foo_.bar" canonicalizes to "foo-bar", which TheFormatControl bars from binaries
PackageNames == {None, Some(""), Some("Foo_.bar"), Some("pkg")}
TheFormatControl == [no_binary |-> {"foo-bar"}, only_binary |-> {}]

\* the canonical names of the package names above, computed once
CanonicalNames ==
    [name \in {n[1] : n \in PackageNames \ {None}} |-> canonicalize_from(name, 1, FALSE)]

\* packaging.utils.canonicalize_name: re.sub(r"[-_.]+", "-", name).lower()
canonicalize_name(name) ==
    IF name \in DOMAIN CanonicalNames THEN CanonicalNames[name]
    ELSE canonicalize_from(name, 1, FALSE)

SupportedTagLists == {<<>>, <<py2>>, <<py3, py2>>}

\* the cache_dir argument of WheelCache(cache_dir, format_control)
CacheDirArgs == {None, Some(""), Some("~/c")}

\* errno values os.listdir fails with besides ENOENT and ENOTDIR
OtherErrnos == {"EACCES"}

(***************************************************************************)
(* State.                                                                  *)
(***************************************************************************)
VARIABLES
    cache,           \* the WheelCache object with its two stores
    fs,              \* shard path -> [st, entries]: what os.listdir finds there
    temp_dir_exists, \* the ephemeral store's temporary directory is on disk
    last             \* the call the client made last and its outcome; op = "" when
                     \* the client has taken the outcome and is between calls

vars == <<cache, fs, temp_dir_exists, last>>

(***************************************************************************)
(* class Cache                                                             *)
(***************************************************************************)
\* Cache.__init__
Cache__init__(kind, cache_dir, format_control, allowed_formats) ==
    [kind |-> kind,
     cache_dir |-> IF cache_dir # None /\ cache_dir[1] # "" THEN Some(expanduser(cache_dir[1])) ELSE None,
     format_control |-> format_control,
     allowed_formats |-> allowed_formats]

\* a faulty key: the hash embedded in the URL is left out
key_url_of_url_only(link) == link.url_without_fragment

\* "#".join(key_parts)
key_url_of(link) ==
    IF link.hash_name # None /\ link.hash # None
    THEN link.url_without_fragment \o "#" \o link.hash_name[1] \o "=" \o link.hash[1]
    ELSE link.url_without_fragment

\* a faulty split: the fourth segment starts one character late
_get_cache_path_parts_short(link) ==
    LET hashed == sha224_hexdigest(key_url_of(link))
    IN << SubSeq(hashed, 1, 2), SubSeq(hashed, 3, 4), SubSeq(hashed, 5, 6),
          SubSeq(hashed, 8, Len(hashed)) >>

\* Cache._get_cache_path_parts
_get_cache_path_parts(link) ==
    LET hashed == sha224_hexdigest(key_url_of(link))
    IN << SubSeq(hashed, 1, 2), SubSeq(hashed, 3, 4), SubSeq(hashed, 5, 6),
          SubSeq(hashed, 7, Len(hashed)) >>

\* SimpleWheelCache.get_path_for_link (cache_dir is a str here)
get_path_for_link(self, link) ==
    os_path_join(self.cache_dir[1], <<"wheels">> \o _get_cache_path_parts(link))

\* a call of SimpleWheelCache.get_path_for_link by a client: os.path.join raises
\* TypeError on a cache_dir that is None
get_path_for_link_call(self, link) ==
    IF self.cache_dir = None
    THEN [raised |-> "TypeError", retval |-> None,
          trace |-> << <<"get_path_for_link", self.kind>> >>]
    ELSE [raised |-> "", retval |-> Some(get_path_for_link(self, link)),
          trace |-> << <<"get_path_for_link", self.kind>> >>]

\* a faulty listing: no entry is ever seen
os_listdir_empty(root, ord) == [errno |-> "", names |-> <<>>]

\* os.listdir(root): the entries in the order ord gives them, or an errno
os_listdir(root, ord) ==
    IF root \notin DOMAIN fs THEN [errno |-> "ENOENT", names |-> <<>>]
    ELSE IF fs[root].st # "dir" THEN [errno |-> fs[root].st, names |-> <<>>]
    ELSE [errno |-> "", names |-> SelectSeq(ord, LAMBDA f : f \in fs[root].entries)]

\* a faulty errno set: every failure of the listing is an error
ignored_errnos_none == {}

\* a faulty errno set: a missing directory is an error
ignored_errnos_without_enoent == {"ENOTDIR"}

\* a faulty errno set: permission problems are swallowed too
ignored_errnos_with_eacces == {"ENOENT", "ENOTDIR", "EACCES"}

\* the errnos of os.listdir that Cache._get_candidates turns into no candidates
ignored_errnos == {"ENOENT", "ENOTDIR"}

\* can_not_cache of Cache._get_candidates
can_not_cache(self, link, package_name) ==
    \/ self.cache_dir = None \/ self.cache_dir[1] = ""
    \/ package_name = None \/ package_name[1] = ""
    \/ link = None

\* a faulty format check: the policy's answer is not looked at
formats_rejected_never(self, formats) == FALSE

\* not self.allowed_formats.intersection(formats)
formats_rejected(self, formats) == self.allowed_formats \cap formats = {}

\* a faulty _get_candidates: the policy is asked before anything else is looked at
_get_candidates_policy_first(self, link, package_name, ord) ==
    LET canonical_name == canonicalize_name(IF package_name = None THEN "" ELSE package_name[1])
        formats == get_allowed_formats(self.format_control, canonical_name)
        t1 == << <<"get_allowed_formats", canonical_name>> >>
    IN
    IF can_not_cache(self, link, package_name) \/ formats_rejected(self, formats)
    THEN [raised |-> "", value |-> <<>>, trace |-> t1]
    ELSE
    LET root == get_path_for_link(self, link[1])
        listing == os_listdir(root, ord)
        t2 == t1 \o << <<"get_path_for_link", self.kind>>, <<"listdir", root>> >>
    IN
    IF listing.errno = "" THEN [raised |-> "", value |-> listing.names, trace |-> t2]
    ELSE IF listing.errno \in ignored_errnos
         THEN [raised |-> "", value |-> <<>>, trace |-> t2]
         ELSE [raised |-> listing.errno, value |-> <<>>, trace |-> t2]

\* a faulty _get_candidates: the shard directory is made before it is listed
_get_candidates_ensure_dir(self, link, package_name, ord) ==
    IF can_not_cache(self, link, package_name)
    THEN [raised |-> "", value |-> <<>>, trace |-> <<>>]
    ELSE
    LET canonical_name == canonicalize_name(package_name[1])
        formats == get_allowed_formats(self.format_control, canonical_name)
        t1 == << <<"get_allowed_formats", canonical_name>> >>
    IN
    IF formats_rejected(self, formats)
    THEN [raised |-> "", value |-> <<>>, trace |-> t1]
    ELSE
    LET root == get_path_for_link(self, link[1])
        listing == os_listdir(root, ord)
        t2 == t1 \o << <<"get_path_for_link", self.kind>>, <<"makedirs", root>>, <<"listdir", root>> >>
    IN
    IF listing.errno = "" THEN [raised |-> "", value |-> listing.names, trace |-> t2]
    ELSE IF listing.errno \in ignored_errnos
         THEN [raised |-> "", value |-> <<>>, trace |-> t2]
         ELSE [raised |-> listing.errno, value |-> <<>>, trace |-> t2]

\* Cache._get_candidates
_get_candidates(self, link, package_name, ord) ==
    IF can_not_cache(self, link, package_name)
    THEN [raised |-> "", value |-> <<>>, trace |-> <<>>]
    ELSE
    LET canonical_name == canonicalize_name(package_name[1])
        formats == get_allowed_formats(self.format_control, canonical_name)
        t1 == << <<"get_allowed_formats", canonical_name>> >>
    IN
    IF formats_rejected(self, formats)
    THEN [raised |-> "", value |-> <<>>, trace |-> t1]
    ELSE
    LET root == get_path_for_link(self, link[1])
        listing == os_listdir(root, ord)
        t2 == t1 \o << <<"get_path_for_link", self.kind>>, <<"listdir", root>> >>
    IN
    IF listing.errno = "" THEN [raised |-> "", value |-> listing.names, trace |-> t2]
    ELSE IF listing.errno \in ignored_errnos
         THEN [raised |-> "", value |-> <<>>, trace |-> t2]
         ELSE [raised |-> listing.errno, value |-> <<>>, trace |-> t2]

\* a faulty _link_for_candidate: the caller's own link object comes back
_link_for_candidate_same_object(self, link, candidate) == link

\* a faulty _link_for_candidate: the file name is joined to the cache root
_link_for_candidate_at_root(self, link, candidate) ==
    Link(path_to_url(os_path_join(self.cache_dir[1], <<candidate>>)))

\* Cache._link_for_candidate
_link_for_candidate(self, link, candidate) ==
    LET root == get_path_for_link(self, link)
        path == os_path_join(root, <<candidate>>)
    IN Link(path_to_url(path))

\* a faulty cleanup: the store's directory is removed
Cache_cleanup_rmtree(self) ==
    [raised |-> "", removed |-> {self.kind}, trace |-> << <<"cleanup", self.kind>> >>]

\* Cache.cleanup: pass; removed is the set of stores whose directory is removed
Cache_cleanup(self) ==
    [raised |-> "", removed |-> {}, trace |-> << <<"cleanup", self.kind>> >>]

(***************************************************************************)
(* class SimpleWheelCache                                                  *)
(***************************************************************************)
\* SimpleWheelCache.__init__
SimpleWheelCache__init__(kind, cache_dir, format_control) ==
    Cache__init__(kind, cache_dir, format_control, {"binary"})

\* a faulty comparison: the rank is not looked at
TupleLess_by_name(c, d) == StrLess(c[2], d[2])

\* (rank, name) tuples compare as Python tuples do
TupleLess(c, d) == c[1] < d[1] \/ (c[1] = d[1] /\ StrLess(c[2], d[2]))

\* min(candidates): the first smallest element
RECURSIVE min_from(_, _)
min_from(best, rest) ==
    IF rest = <<>> THEN best
    ELSE min_from(IF TupleLess(Head(rest), best) THEN Head(rest) ELSE best, Tail(rest))

\* a faulty min: the first candidate of the listing
min_first(candidates) == Head(candidates)

min(candidates) == min_from(Head(candidates), Tail(candidates))

\* the loop of SimpleWheelCache.get over the names _get_candidates returned
RECURSIVE scan_candidates(_, _, _)
scan_candidates(names, supported_tags, candidates) ==
    IF names = <<>> THEN candidates
    ELSE LET wheel_name == Head(names)
             wheel == Wheel(wheel_name)
         IN IF wheel = None
            THEN scan_candidates(Tail(names), supported_tags, candidates)
            ELSE IF ~supported(wheel[1], supported_tags)
            THEN scan_candidates(Tail(names), supported_tags, candidates)
            ELSE scan_candidates(Tail(names), supported_tags,
                     Append(candidates, <<support_index_min(wheel[1], supported_tags), wheel_name>>))

\* SimpleWheelCache.get from the point where _get_candidates has returned got
SimpleWheelCache_get_after(self, link, supported_tags, got) ==
    LET t == << <<"get", self.kind>> >> \o got.trace IN
    IF got.raised # "" THEN [raised |-> got.raised, retval |-> None, trace |-> t]
    ELSE
    LET candidates == scan_candidates(got.value, supported_tags, <<>>) IN
    IF candidates = <<>> THEN [raised |-> "", retval |-> link, trace |-> t]
    ELSE [raised |-> "",
          retval |-> Some(_link_for_candidate(self, link[1], min(candidates)[2])),
          trace |-> t]

\* SimpleWheelCache.get
SimpleWheelCache_get(self, link, package_name, supported_tags, ord) ==
    SimpleWheelCache_get_after(self, link, supported_tags,
                               _get_candidates(self, link, package_name, ord))

(***************************************************************************)
(* class EphemWheelCache                                                   *)
(***************************************************************************)
\* EphemWheelCache.__init__
EphemWheelCache__init__(format_control) ==
    SimpleWheelCache__init__("EphemWheelCache", Some(TempDirPath), format_control)

\* a faulty cleanup: a removal that fails is passed over in silence
EphemWheelCache_cleanup_quiet(self, rmtree_fails) ==
    [raised |-> "",
     removed |-> IF temp_dir_exists /\ ~rmtree_fails THEN {self.kind} ELSE {},
     trace |-> << <<"cleanup", self.kind>> >>
               \o (IF temp_dir_exists
                   THEN << <<"rmtree", IF rmtree_fails THEN "OSError" ELSE "">> >>
                   ELSE <<>>)]

\* EphemWheelCache.cleanup: TempDirectory.cleanup removes the directory when it
\* exists; rmtree_fails is whether that removal raises
EphemWheelCache_cleanup(self, rmtree_fails) ==
    [raised |-> IF temp_dir_exists /\ rmtree_fails THEN "OSError" ELSE "",
     removed |-> IF temp_dir_exists /\ ~rmtree_fails THEN {self.kind} ELSE {},
     trace |-> << <<"cleanup", self.kind>> >>
               \o (IF temp_dir_exists
                   THEN << <<"rmtree", IF rmtree_fails THEN "OSError" ELSE "">> >>
                   ELSE <<>>)]

(***************************************************************************)
(* class WheelCache                                                        *)
(***************************************************************************)
\* WheelCache.__init__
WheelCache__init__(cache_dir, format_control) ==
    [_wheel_cache |-> SimpleWheelCache__init__("SimpleWheelCache", cache_dir, format_control),
     _ephem_cache |-> EphemWheelCache__init__(format_control)]
    @@ Cache__init__("WheelCache", cache_dir, format_control, {"binary"})

\* WheelCache.get_path_for_link
WheelCache_get_path_for_link(self, link) == get_path_for_link(self._wheel_cache, link)

\* WheelCache.get_ephem_path_for_link
WheelCache_get_ephem_path_for_link(self, link) == get_path_for_link(self._ephem_cache, link)

\* a call of WheelCache.get_path_for_link by a client
WheelCache_get_path_for_link_call(self, link) ==
    get_path_for_link_call(self._wheel_cache, link)

\* a call of WheelCache.get_ephem_path_for_link by a client
WheelCache_get_ephem_path_for_link_call(self, link) ==
    get_path_for_link_call(self._ephem_cache, link)

\* a is b, of two Optional[Link]
Is(a, b) == IF a = None \/ b = None THEN a = b ELSE a[1].oid = b[1].oid

\* a faulty get: the ephemeral store is asked first
WheelCache_get_ephem_first(self, link, package_name, supported_tags, ord) ==
    LET r == SimpleWheelCache_get(self._ephem_cache, link, package_name, supported_tags, ord)
        t == << <<"get", self.kind>> >> \o r.trace
    IN
    IF r.raised # "" THEN [r EXCEPT !.trace = t]
    ELSE IF ~Is(r.retval, link) THEN [r EXCEPT !.trace = t]
    ELSE LET e == SimpleWheelCache_get(self._wheel_cache, link, package_name, supported_tags, ord)
         IN [e EXCEPT !.trace = t \o e.trace]

\* a faulty get: the ephemeral store is never asked
WheelCache_get_persistent_only(self, link, package_name, supported_tags, ord) ==
    LET r == SimpleWheelCache_get(self._wheel_cache, link, package_name, supported_tags, ord)
    IN [r EXCEPT !.trace = << <<"get", self.kind>> >> \o r.trace]

\* a faulty get: without a cache root nothing is looked up at all
WheelCache_get_off_without_root(self, link, package_name, supported_tags, ord) ==
    LET r == SimpleWheelCache_get(self._wheel_cache, link, package_name, supported_tags, ord)
        t == << <<"get", self.kind>> >> \o r.trace
    IN
    IF r.raised # "" THEN [r EXCEPT !.trace = t]
    ELSE IF ~Is(r.retval, link) \/ self.cache_dir = None THEN [r EXCEPT !.trace = t]
    ELSE LET e == SimpleWheelCache_get(self._ephem_cache, link, package_name, supported_tags, ord)
         IN [e EXCEPT !.trace = t \o e.trace]

\* WheelCache.get
WheelCache_get(self, link, package_name, supported_tags, ord) ==
    LET r == SimpleWheelCache_get(self._wheel_cache, link, package_name, supported_tags, ord)
        t == << <<"get", self.kind>> >> \o r.trace
    IN
    IF r.raised # "" THEN [r EXCEPT !.trace = t]
    ELSE IF ~Is(r.retval, link) THEN [r EXCEPT !.trace = t]
    ELSE LET e == SimpleWheelCache_get(self._ephem_cache, link, package_name, supported_tags, ord)
         IN [e EXCEPT !.trace = t \o e.trace]

\* a faulty cleanup: the ephemeral store is cleaned up first
WheelCache_cleanup_ephem_first(self, rmtree_fails) ==
    LET b == EphemWheelCache_cleanup(self._ephem_cache, rmtree_fails) IN
    IF b.raised # "" THEN b
    ELSE LET a == Cache_cleanup(self._wheel_cache)
         IN [raised |-> a.raised, removed |-> b.removed \cup a.removed,
             trace |-> b.trace \o a.trace]

\* WheelCache.cleanup
WheelCache_cleanup(self, rmtree_fails) ==
    LET a == Cache_cleanup(self._wheel_cache) IN
    IF a.raised # "" THEN a
    ELSE LET b == EphemWheelCache_cleanup(self._ephem_cache, rmtree_fails)
         IN [raised |-> b.raised, removed |-> a.removed \cup b.removed,
             trace |-> a.trace \o b.trace]


(***************************************************************************)
(* The filesystem and the processes that write to it.                      *)
(***************************************************************************)
Missing == [st |-> "ENOENT", entries |-> {}]

\* the shard directories of a store
ShardPaths(self) ==
    IF self.cache_dir = None THEN {} ELSE {get_path_for_link(self, l) : l \in Links}

EphemPaths == ShardPaths(cache._ephem_cache)

\* the store of a kind
Store(kind) == IF kind = "EphemWheelCache" THEN cache._ephem_cache ELSE cache._wheel_cache

TotalEntries == LET RECURSIVE Sum(_)
                    Sum(P) == IF P = {} THEN 0
                              ELSE LET p == CHOOSE q \in P : TRUE
                                   IN Cardinality(fs[p].entries) + Sum(P \ {p})
                IN Sum(DOMAIN fs)

Present == {p \in DOMAIN fs : fs[p].st # "ENOENT"}

\* a path another process may touch: the temporary directory is gone after cleanup
Writable(p) == p \in DOMAIN fs /\ (p \in EphemPaths => temp_dir_exists)

\* all orders os.listdir may return the names S in
OrdersOf(S) ==
    {o \in [1..Cardinality(S) -> S] : \A i, j \in 1..Cardinality(S) : o[i] = o[j] => i = j}

Orders == [S \in SUBSET FileNames |-> OrdersOf(S)]

\* the names in the shard directories of a link in the given stores
NamesFor(stores, link) ==
    IF link = None THEN {}
    ELSE UNION {fs[get_path_for_link(st, link[1])].entries : st \in {x \in stores : x.cache_dir # None}}

\* what the calls of a trace leave on disk: os.listdir and the other calls of
\* the cache write nothing; os.makedirs(p) would make p a directory
fs_after_calls(trace) ==
    LET made == {trace[i][2] : i \in {j \in 1..Len(trace) : trace[j][1] = "makedirs"}}
    IN IF made = {} THEN fs
       ELSE [p \in DOMAIN fs |->
                IF p \in made /\ fs[p].st = "ENOENT" THEN [st |-> "dir", entries |-> {}]
                ELSE fs[p]]

Idle ==
    [op |-> "", self |-> "", link |-> None, package_name |-> None,
     supported_tags |-> <<>>, raised |-> "", retval |-> None, trace |-> <<>>]

Init ==
    /\ \E cache_dir \in CacheDirArgs : cache = WheelCache__init__(cache_dir, TheFormatControl)
    /\ fs = [p \in ShardPaths(cache._wheel_cache) \cup ShardPaths(cache._ephem_cache) |-> Missing]
    /\ temp_dir_exists = TRUE
    /\ last = Idle

\* a wheel builder moves a file into a shard directory, creating it when needed
PlaceFile(p, f) ==
    /\ last.op = ""
    /\ Writable(p)
    /\ fs[p].st \in {"ENOENT", "dir"}
    /\ f \notin fs[p].entries
    /\ TotalEntries < MaxEntries
    /\ fs[p].st = "ENOENT" => Cardinality(Present) < MaxDirs
    /\ fs' = [fs EXCEPT ![p] = [st |-> "dir", entries |-> fs[p].entries \cup {f}]]
    /\ UNCHANGED <<cache, temp_dir_exists, last>>

RemoveFile(p, f) ==
    /\ last.op = ""
    /\ Writable(p)
    /\ fs[p].st = "dir"
    /\ f \in fs[p].entries
    /\ fs' = [fs EXCEPT ![p].entries = @ \ {f}]
    /\ UNCHANGED <<cache, temp_dir_exists, last>>

\* an empty shard directory is created
Mkdir(p) ==
    /\ last.op = ""
    /\ Writable(p)
    /\ fs[p].st = "ENOENT"
    /\ Cardinality(Present) < MaxDirs
    /\ fs' = [fs EXCEPT ![p] = [st |-> "dir", entries |-> {}]]
    /\ UNCHANGED <<cache, temp_dir_exists, last>>

\* a regular file takes the place of the shard directory or of a parent of it
MakeNotDir(p) ==
    /\ last.op = ""
    /\ Writable(p)
    /\ fs[p].st = "ENOENT"
    /\ Cardinality(Present) < MaxDirs
    /\ fs' = [fs EXCEPT ![p] = [st |-> "ENOTDIR", entries |-> {}]]
    /\ UNCHANGED <<cache, temp_dir_exists, last>>

\* a directory this process may not list (or another failure e of listing)
\* comes to be at the shard path
MakeUnlistable(p, e) ==
    /\ last.op = ""
    /\ Writable(p)
    /\ fs[p].st = "ENOENT"
    /\ Cardinality(Present) < MaxDirs
    /\ fs' = [fs EXCEPT ![p] = [st |-> e, entries |-> {}]]
    /\ UNCHANGED <<cache, temp_dir_exists, last>>

\* whatever is at the shard path is removed
RemoveDir(p) ==
    /\ last.op = ""
    /\ Writable(p)
    /\ fs[p].st # "ENOENT"
    /\ fs' = [fs EXCEPT ![p] = Missing]
    /\ UNCHANGED <<cache, temp_dir_exists, last>>

(***************************************************************************)
(* The client's calls.                                                     *)
(***************************************************************************)
Called(op, self, link, package_name, supported_tags, r) ==
    [op |-> op, self |-> self, link |-> link, package_name |-> package_name,
     supported_tags |-> supported_tags, raised |-> r.raised, retval |-> r.retval,
     trace |-> r.trace]

\* cache._wheel_cache.get(link, package_name, supported_tags)
CallSimpleGet(link, package_name, supported_tags) ==
    /\ last.op = ""
    /\ \E ord \in Orders[NamesFor({cache._wheel_cache}, link)] :
         LET r == SimpleWheelCache_get(cache._wheel_cache, link, package_name, supported_tags, ord)
         IN /\ last' = Called("get", "SimpleWheelCache", link, package_name, supported_tags, r)
            /\ fs' = fs_after_calls(r.trace)
    /\ UNCHANGED <<cache, temp_dir_exists>>

\* cache._ephem_cache.get(link, package_name, supported_tags)
CallEphemGet(link, package_name, supported_tags) ==
    /\ last.op = ""
    /\ \E ord \in Orders[NamesFor({cache._ephem_cache}, link)] :
         LET r == SimpleWheelCache_get(cache._ephem_cache, link, package_name, supported_tags, ord)
         IN /\ last' = Called("get", "EphemWheelCache", link, package_name, supported_tags, r)
            /\ fs' = fs_after_calls(r.trace)
    /\ UNCHANGED <<cache, temp_dir_exists>>

\* cache.get(link, package_name, supported_tags)
CallGet(link, package_name, supported_tags) ==
    /\ last.op = ""
    /\ \E ord \in Orders[NamesFor({cache._wheel_cache, cache._ephem_cache}, link)] :
         LET r == WheelCache_get(cache, link, package_name, supported_tags, ord)
         IN /\ last' = Called("get", "WheelCache", link, package_name, supported_tags, r)
            /\ fs' = fs_after_calls(r.trace)
    /\ UNCHANGED <<cache, temp_dir_exists>>

\* cache.get_path_for_link(link)
CallGetPathForLink(link) ==
    /\ last.op = ""
    /\ LET r == WheelCache_get_path_for_link_call(cache, link)
       IN /\ last' = Called("get_path_for_link", "WheelCache", Some(link), None, <<>>, r)
          /\ fs' = fs_after_calls(r.trace)
    /\ UNCHANGED <<cache, temp_dir_exists>>

\* cache.get_ephem_path_for_link(link)
CallGetEphemPathForLink(link) ==
    /\ last.op = ""
    /\ LET r == WheelCache_get_ephem_path_for_link_call(cache, link)
       IN /\ last' = Called("get_ephem_path_for_link", "WheelCache", Some(link), None, <<>>, r)
          /\ fs' = fs_after_calls(r.trace)
    /\ UNCHANGED <<cache, temp_dir_exists>>

\* cache._wheel_cache._get_cache_path_parts(link); the trace has the key digested
CallGetCachePathParts(link) ==
    /\ last.op = ""
    /\ last' = Called("_get_cache_path_parts", "SimpleWheelCache", Some(link), None, <<>>,
                      [raised |-> "", retval |-> Some(_get_cache_path_parts(link)),
                       trace |-> << <<"sha224", key_url_of(link)>> >>])
    /\ UNCHANGED <<cache, fs, temp_dir_exists>>

\* cache._wheel_cache.get_path_for_link(link), cache._ephem_cache.get_path_for_link(link)
CallStoreGetPathForLink(kind, link) ==
    /\ last.op = ""
    /\ LET self == IF kind = "EphemWheelCache" THEN cache._ephem_cache ELSE cache._wheel_cache
           r == get_path_for_link_call(self, link)
       IN /\ last' = Called("get_path_for_link", kind, Some(link), None, <<>>, r)
          /\ fs' = fs_after_calls(r.trace)
    /\ UNCHANGED <<cache, temp_dir_exists>>

\* the outcome of a cleanup on disk; a removal that fails may have removed
\* some shard directories
Cleaned(self, r) ==
    /\ last' = [Idle EXCEPT !.op = "cleanup", !.self = self,
                            !.raised = r.raised, !.trace = r.trace]
    /\ temp_dir_exists' = (temp_dir_exists /\ "EphemWheelCache" \notin r.removed)
    /\ LET wiped == UNION {ShardPaths(Store(k)) : k \in r.removed} IN
       IF r.raised # ""
       THEN \E gone \in SUBSET (EphemPaths \cap Present) :
               fs' = [p \in DOMAIN fs |-> IF p \in gone \cup wiped THEN Missing ELSE fs[p]]
       ELSE fs' = [p \in DOMAIN fs |-> IF p \in wiped THEN Missing ELSE fs[p]]

\* cache._ephem_cache.cleanup()
CallEphemCleanup ==
    /\ last.op = ""
    /\ \E rmtree_fails \in BOOLEAN :
         Cleaned("EphemWheelCache", EphemWheelCache_cleanup(cache._ephem_cache, rmtree_fails))
    /\ UNCHANGED cache

\* cache.cleanup(); a removal that fails may have removed some shard directories
CallCleanup ==
    /\ last.op = ""
    /\ \E rmtree_fails \in BOOLEAN :
         Cleaned("WheelCache", WheelCache_cleanup(cache, rmtree_fails))
    /\ UNCHANGED cache

\* the client takes the outcome of its call
Return ==
    /\ last.op # ""
    /\ last' = Idle
    /\ UNCHANGED <<cache, fs, temp_dir_exists>>

Next ==
    \/ \E p \in DOMAIN fs, f \in FileNames : PlaceFile(p, f)
    \/ \E p \in DOMAIN fs, f \in FileNames : RemoveFile(p, f)
    \/ \E p \in DOMAIN fs : Mkdir(p)
    \/ \E p \in DOMAIN fs : MakeNotDir(p)
    \/ \E p \in DOMAIN fs, e \in OtherErrnos : MakeUnlistable(p, e)
    \/ \E p \in DOMAIN fs : RemoveDir(p)
    \/ \E link \in LinkArgs, package_name \in PackageNames, supported_tags \in SupportedTagLists :
         CallSimpleGet(link, package_name, supported_tags)
    \/ \E link \in LinkArgs, package_name \in PackageNames, supported_tags \in SupportedTagLists :
         CallEphemGet(link, package_name, supported_tags)
    \/ \E link \in LinkArgs, package_name \in PackageNames, supported_tags \in SupportedTagLists :
         CallGet(link, package_name, supported_tags)
    \/ \E link \in Links : CallGetPathForLink(link)
    \/ \E link \in Links : CallGetEphemPathForLink(link)
    \/ CallEphemCleanup
    \/ CallCleanup
    \/ Return

Spec == Init /\ [][Next]_vars

(***************************************************************************)
(* The derivation of keys and paths alone, over the links of KeyLinks.     *)
(***************************************************************************)
NextKey ==
    \/ \E link \in KeyLinks : CallGetCachePathParts(link)
    \/ \E kind \in {"SimpleWheelCache", "EphemWheelCache"}, link \in KeyLinks :
         CallStoreGetPathForLink(kind, link)
    \/ \E link \in KeyLinks : CallGetPathForLink(link)
    \/ \E link \in KeyLinks : CallGetEphemPathForLink(link)
    \/ Return

SpecKey == Init /\ [][NextKey]_vars


(***************************************************************************)
(* What a lookup is expected to find, said over the sets of names on disk. *)
(***************************************************************************)
StoreGet == last.op = "get" /\ last.self \in {"SimpleWheelCache", "EphemWheelCache"}
TieredGet == last.op = "get" /\ last.self = "WheelCache"

Truthy(s) == s # None /\ s[1] # ""

\* the lookup is not short-circuited: it has a root, a package name and a link
NotShortCircuited(self, link, package_name) ==
    Truthy(self.cache_dir) /\ Truthy(package_name) /\ link # None

\* the policy allows the package one of the formats of the store
PolicyAllows(self, package_name) ==
    get_allowed_formats(self.format_control, canonicalize_name(package_name[1]))
        \cap self.allowed_formats # {}

\* the lookup gets as far as listing the shard directory
Lists(self, link, package_name) ==
    NotShortCircuited(self, link, package_name) /\ PolicyAllows(self, package_name)

Shard(self, link) == fs[get_path_for_link(self, link[1])]

\* the names of the wheels among names that the tags support
Compatible(names, tags) ==
    {f \in names : Wheel(f) # None /\ supported(Wheel(f)[1], tags)}

Rank(f, tags) == support_index_min(Wheel(f)[1], tags)

\* f is the smallest of S by (rank, name)
Smallest(f, S, tags) ==
    /\ f \in S
    /\ \A g \in S \ {f} :
          \/ Rank(f, tags) < Rank(g, tags)
          \/ Rank(f, tags) = Rank(g, tags) /\ StrLess(f, g)

\* the outcome is a link to the file f of the store's shard directory
HitOn(self, link, f, raised, retval) ==
    /\ raised = ""
    /\ retval # None
    /\ LinkPath(retval[1]) = get_path_for_link(self, link[1]) \o "/" \o f

\* the store has a candidate for the lookup
HasHit(self, link, package_name, tags) ==
    /\ Lists(self, link, package_name)
    /\ Shard(self, link).st = "dir"
    /\ Compatible(Shard(self, link).entries, tags) # {}

\* the store has no candidate, and listing its shard directory does not fail
HasMiss(self, link, package_name, tags) ==
    \/ ~Lists(self, link, package_name)
    \/ Shard(self, link).st \in {"ENOENT", "ENOTDIR"}
    \/ Shard(self, link).st = "dir" /\ Compatible(Shard(self, link).entries, tags) = {}

(***************************************************************************)
(* A get step by step, while another process fills the shard directories   *)
(* of the link.  A get touches the disk in os.listdir only, so it is taken *)
(* in the pieces between its listings and its return; the other process    *)
(* creates directories and adds files, and never removes or changes one.   *)
(* While a get is under way last.op is "listdir": last.at is the store     *)
(* whose _get_candidates has returned last.got, and last.listed the names  *)
(* that were in its shard directory then.                                  *)
(***************************************************************************)
RaceLinks == {Some(L1)}
RaceNames == {Some("pkg")}
RaceTagLists == {<<py2>>, <<py3, py2>>}

\* the shard directories of the links looked up
RacePaths ==
    {get_path_for_link(st, l[1]) :
        st \in {x \in {cache._wheel_cache, cache._ephem_cache} : x.cache_dir # None},
        l \in RaceLinks}

\* the names in the shard directory of the link when self lists it
ListedNow(self, link, package_name) ==
    IF Lists(self, link, package_name) THEN Shard(self, link).entries ELSE {}

\* the get is under way in the store at: its _get_candidates has returned
Listing(last_, at, link, package_name, ord) ==
    [last_ EXCEPT !.op = "listdir"]
    @@ [at |-> at,
        got |-> _get_candidates(Store(at), link, package_name, ord),
        listed |-> ListedNow(Store(at), link, package_name)]

\* the other process creates a shard directory
WriterMkdir(p) ==
    /\ fs[p].st = "ENOENT"
    /\ Cardinality(Present) < MaxDirs
    /\ fs' = [fs EXCEPT ![p] = [st |-> "dir", entries |-> {}]]
    /\ UNCHANGED <<cache, temp_dir_exists, last>>

\* the other process moves a file into a shard directory, creating it when needed
WriterPlaceFile(p, f) ==
    /\ fs[p].st \in {"ENOENT", "dir"}
    /\ f \notin fs[p].entries
    /\ TotalEntries < MaxEntries
    /\ fs[p].st = "ENOENT" => Cardinality(Present) < MaxDirs
    /\ fs' = [fs EXCEPT ![p] = [st |-> "dir", entries |-> fs[p].entries \cup {f}]]
    /\ UNCHANGED <<cache, temp_dir_exists, last>>

\* a get is called and runs until the _get_candidates of its first store returns
RaceBegin(kind, link, package_name, supported_tags) ==
    /\ last.op = ""
    /\ LET at == IF kind = "EphemWheelCache" THEN "EphemWheelCache" ELSE "SimpleWheelCache"
       IN \E ord \in Orders[NamesFor({Store(at)}, link)] :
             last' = Listing([Idle EXCEPT !.self = kind, !.link = link,
                                         !.package_name = package_name,
                                         !.supported_tags = supported_tags,
                                         !.trace = IF kind = "WheelCache"
                                                   THEN << <<"get", kind>> >> ELSE <<>>],
                             at, link, package_name, ord)
    /\ UNCHANGED <<cache, fs, temp_dir_exists>>

\* WheelCache.get: the persistent store gave the link back, the ephemeral
\* store is asked and runs until its _get_candidates returns
RaceFallBack ==
    /\ last.op = "listdir"
    /\ last.self = "WheelCache" /\ last.at = "SimpleWheelCache"
    /\ LET r == SimpleWheelCache_get_after(cache._wheel_cache, last.link,
                                           last.supported_tags, last.got)
       IN /\ r.raised = "" /\ Is(r.retval, last.link)
          /\ \E ord \in Orders[NamesFor({cache._ephem_cache}, last.link)] :
                last' = [Listing(Idle, "EphemWheelCache", last.link, last.package_name, ord)
                            EXCEPT !.self = last.self, !.link = last.link,
                                   !.package_name = last.package_name,
                                   !.supported_tags = last.supported_tags,
                                   !.trace = last.trace \o r.trace]
    /\ UNCHANGED <<cache, fs, temp_dir_exists>>

\* the get returns, or raises, what the store at hand gives
RaceReturn ==
    /\ last.op = "listdir"
    /\ LET r == SimpleWheelCache_get_after(Store(last.at), last.link,
                                           last.supported_tags, last.got)
       IN /\ (last.self = "WheelCache" /\ last.at = "SimpleWheelCache")
                => (r.raised # "" \/ ~Is(r.retval, last.link))
          /\ last' = [last EXCEPT !.op = "get", !.raised = r.raised, !.retval = r.retval,
                                  !.trace = last.trace \o r.trace]
    /\ UNCHANGED <<cache, fs, temp_dir_exists>>

\* the client takes what its get returned
RaceTake ==
    /\ last.op = "get"
    /\ last' = Idle
    /\ UNCHANGED <<cache, fs, temp_dir_exists>>

NextRace ==
    \/ \E p \in RacePaths : WriterMkdir(p)
    \/ \E p \in RacePaths, f \in FileNames : WriterPlaceFile(p, f)
    \/ \E kind \in {"SimpleWheelCache", "EphemWheelCache", "WheelCache"}, link \in RaceLinks,
          package_name \in RaceNames, supported_tags \in RaceTagLists :
         RaceBegin(kind, link, package_name, supported_tags)
    \/ RaceFallBack
    \/ RaceReturn
    \/ RaceTake

SpecRace == Init /\ [][NextRace]_vars

(***************************************************************************)
(* Gets one after the other, with changes of the shard directories between *)
(* them.  last.op is "get" when the get has just returned and "got" once   *)
(* the disk has changed since.  last.earlier has what the gets before this *)
(* one gave, the latest first, for as long as they were calls of the same  *)
(* method with the same arguments: "miss" for the link that was given,     *)
(* "hit" for another link, else what was raised.                           *)
(***************************************************************************)
\* so many earlier outcomes are remembered
MaxEarlier == 2

\* the tags of the gets: they support two of the wheels of FileNames
SeqTagLists == {<<py2>>}

\* the outcomes of the calls before the one to come
Earlier(kind, link, package_name, supported_tags) ==
    IF /\ last.op \in {"get", "got"} /\ last.self = kind /\ last.link = link
       /\ last.package_name = package_name /\ last.supported_tags = supported_tags
    THEN SubSeq(<<IF last.raised # "" THEN last.raised
                  ELSE IF Is(last.retval, last.link) THEN "miss" ELSE "hit">> \o last.earlier,
                1, IF Len(last.earlier) < MaxEarlier THEN Len(last.earlier) + 1 ELSE MaxEarlier)
    ELSE <<>>

\* what a get of the object kind gives with the listing order ord
GetOf(kind, link, package_name, supported_tags, ord) ==
    IF kind = "WheelCache" THEN WheelCache_get(cache, link, package_name, supported_tags, ord)
    ELSE SimpleWheelCache_get(Store(kind), link, package_name, supported_tags, ord)

\* a get, called when the one before has returned
SeqGet(kind, link, package_name, supported_tags) ==
    /\ \E ord \in Orders[NamesFor(IF kind = "WheelCache"
                                   THEN {cache._wheel_cache, cache._ephem_cache}
                                   ELSE {Store(kind)}, link)] :
         LET r == GetOf(kind, link, package_name, supported_tags, ord)
         IN /\ last' = Called("get", kind, link, package_name, supported_tags, r)
                          @@ [earlier |-> Earlier(kind, link, package_name, supported_tags)]
            /\ fs' = fs_after_calls(r.trace)
    /\ UNCHANGED <<cache, temp_dir_exists>>

\* the get that returned last is a get of the past
Past == IF last.op = "get" THEN [last EXCEPT !.op = "got"] ELSE last

\* between two gets a file is moved into a shard directory
SeqPlaceFile(p, f) ==
    /\ fs[p].st \in {"ENOENT", "dir"}
    /\ f \notin fs[p].entries
    /\ TotalEntries < MaxEntries
    /\ fs[p].st = "ENOENT" => Cardinality(Present) < MaxDirs
    /\ fs' = [fs EXCEPT ![p] = [st |-> "dir", entries |-> fs[p].entries \cup {f}]]
    /\ last' = Past
    /\ UNCHANGED <<cache, temp_dir_exists>>

\* between two gets a file is taken out of a shard directory
SeqRemoveFile(p, f) ==
    /\ fs[p].st = "dir"
    /\ f \in fs[p].entries
    /\ fs' = [fs EXCEPT ![p].entries = @ \ {f}]
    /\ last' = Past
    /\ UNCHANGED <<cache, temp_dir_exists>>

NextSeq ==
    \/ \E p \in RacePaths, f \in FileNames : SeqPlaceFile(p, f)
    \/ \E p \in RacePaths, f \in FileNames : SeqRemoveFile(p, f)
    \/ \E kind \in {"SimpleWheelCache", "EphemWheelCache", "WheelCache"}, link \in RaceLinks,
          package_name \in RaceNames, supported_tags \in SeqTagLists :
         SeqGet(kind, link, package_name, supported_tags)

SpecSeq == Init /\ [][NextSeq]_vars

(***************************************************************************)
(* C1.  SimpleWheelCache.get on a store without a cache root, or whose     *)
(* root or shard directory is not on disk, returns the very link object it *)
(* was given and raises nothing, whatever the link, the package name and   *)
(* the tags are.                                                           *)
(***************************************************************************)
C1_MissingRootReturnsSameLink ==
    (/\ StoreGet
     /\ \/ ~Truthy(Store(last.self).cache_dir)
        \/ last.self = "EphemWheelCache" /\ ~temp_dir_exists
        \/ last.link # None /\ Shard(Store(last.self), last.link).st = "ENOENT")
    => last.raised = "" /\ last.retval = last.link

C1_Witness ==
    /\ StoreGet
    /\ last.link # None /\ last.package_name = Some("pkg") /\ last.supported_tags # <<>>
    /\ Store(last.self).cache_dir # None
    /\ Shard(Store(last.self), last.link).st = "ENOENT"
    /\ \E i \in 1..Len(last.trace) : last.trace[i][1] = "listdir"
    /\ last.retval = last.link

(***************************************************************************)
(* C2.  When the lookup is not short-circuited and lists the shard         *)
(* directory, SimpleWheelCache.get selects, among the entries that parse   *)
(* as wheels and that the tags support, the one with the smallest          *)
(* (support_index_min, filename): the lowest rank wins, equal ranks go to  *)
(* the smaller name, and an entry that does not parse is skipped without   *)
(* an error and is never selected.                                         *)
(***************************************************************************)
C2_SelectsSmallestRankThenName ==
    (StoreGet /\ HasHit(Store(last.self), last.link, last.package_name, last.supported_tags))
    => \E f \in Compatible(Shard(Store(last.self), last.link).entries, last.supported_tags) :
          /\ Smallest(f, Compatible(Shard(Store(last.self), last.link).entries,
                                    last.supported_tags), last.supported_tags)
          /\ HitOn(Store(last.self), last.link, f, last.raised, last.retval)

\* a malformed name, a wheel of rank 1 and a wheel of rank 0 with the larger name
C2_Witness ==
    /\ StoreGet
    /\ last.link # None
    /\ Lists(Store(last.self), last.link, last.package_name)
    /\ last.supported_tags = <<py3, py2>>
    /\ Shard(Store(last.self), last.link).entries =
          {"README", "pkg-1.0-py2-none-any.whl", "pkg-1.0-py3-none-any.whl"}
    /\ HitOn(Store(last.self), last.link, "pkg-1.0-py3-none-any.whl", last.raised, last.retval)

(***************************************************************************)
(* C3.  WheelCache.get prefers the persistent store: when the persistent   *)
(* store has a hit for (link, package_name, supported_tags), WheelCache.get*)
(* returns that hit whatever the ephemeral store holds, and the ephemeral  *)
(* store is not queried.                                                   *)
(***************************************************************************)
C3_PersistentHitPreferred ==
    (TieredGet /\ HasHit(cache._wheel_cache, last.link, last.package_name, last.supported_tags))
    => /\ \E f \in Shard(cache._wheel_cache, last.link).entries :
             /\ Smallest(f, Compatible(Shard(cache._wheel_cache, last.link).entries,
                                       last.supported_tags), last.supported_tags)
             /\ HitOn(cache._wheel_cache, last.link, f, last.raised, last.retval)
       /\ \A i \in 1..Len(last.trace) :
             /\ last.trace[i] # <<"get", "EphemWheelCache">>
             /\ last.trace[i] # <<"get_path_for_link", "EphemWheelCache">>
             /\ last.trace[i] # <<"listdir", get_path_for_link(cache._ephem_cache, last.link[1])>>

\* both stores have a candidate, the ephemeral one of the better rank
C3_Witness ==
    /\ TieredGet
    /\ last.supported_tags = <<py3, py2>>
    /\ HasHit(cache._wheel_cache, last.link, last.package_name, last.supported_tags)
    /\ HasHit(cache._ephem_cache, last.link, last.package_name, last.supported_tags)
    /\ Shard(cache._wheel_cache, last.link).entries = {"pkg-1.0-py2-none-any.whl"}
    /\ Shard(cache._ephem_cache, last.link).entries = {"pkg-1.0-py3-none-any.whl"}
    /\ HitOn(cache._wheel_cache, last.link, "pkg-1.0-py2-none-any.whl", last.raised, last.retval)

(***************************************************************************)
(* C4.  When the persistent store misses, WheelCache.get returns what the  *)
(* ephemeral store's get returns for the same arguments: the ephemeral hit *)
(* when there is one, and the original link object only when both stores   *)
(* miss.                                                                   *)
(***************************************************************************)
C4_FallsBackToEphemeral ==
    (TieredGet /\ HasMiss(cache._wheel_cache, last.link, last.package_name, last.supported_tags))
    => /\ HasHit(cache._ephem_cache, last.link, last.package_name, last.supported_tags)
            => \E f \in Shard(cache._ephem_cache, last.link).entries :
                  /\ Smallest(f, Compatible(Shard(cache._ephem_cache, last.link).entries,
                                            last.supported_tags), last.supported_tags)
                  /\ HitOn(cache._ephem_cache, last.link, f, last.raised, last.retval)
       /\ HasMiss(cache._ephem_cache, last.link, last.package_name, last.supported_tags)
            => last.raised = "" /\ last.retval = last.link
       /\ (last.raised = "" /\ last.retval = last.link)
            => HasMiss(cache._ephem_cache, last.link, last.package_name, last.supported_tags)

\* the persistent shard holds only a wheel the tags do not support, the ephemeral a good one
C4_Witness ==
    /\ TieredGet
    /\ last.link # None
    /\ Lists(cache._wheel_cache, last.link, last.package_name)
    /\ last.supported_tags = <<py2>>
    /\ Shard(cache._wheel_cache, last.link).entries = {"pkg-1.0-py3-none-any.whl"}
    /\ Shard(cache._wheel_cache, last.link).st = "dir"
    /\ HitOn(cache._ephem_cache, last.link, "pkg-1.0-py2-none-any.whl", last.raised, last.retval)


(***************************************************************************)
(* C5.  When the formats the policy allows for the canonicalized package   *)
(* name do not intersect the cache's allowed formats ({binary}), get       *)
(* returns the original link, also when a compatible wheel is in the       *)
(* link's shard directory; so for SimpleWheelCache.get, EphemWheelCache.get*)
(* and WheelCache.get.                                                     *)
(***************************************************************************)
C5_PolicyRejectionIsMiss ==
    (/\ last.op = "get"
     /\ Truthy(last.package_name)
     /\ get_allowed_formats(cache.format_control, canonicalize_name(last.package_name[1]))
            \cap {"binary"} = {})
    => last.raised = "" /\ last.retval = last.link

\* a package barred from binaries, a supported wheel in the persistent shard directory
C5_Witness ==
    /\ TieredGet
    /\ last.package_name = Some("Foo_.bar")
    /\ last.link # None
    /\ Truthy(cache._wheel_cache.cache_dir)
    /\ Shard(cache._wheel_cache, last.link).st = "dir"
    /\ Compatible(Shard(cache._wheel_cache, last.link).entries, last.supported_tags) # {}
    /\ last.raised = "" /\ last.retval = last.link

(***************************************************************************)
(* C6.  SimpleWheelCache.get returns the original link object exactly when *)
(* no entry of the shard directory is both a parseable wheel name and      *)
(* supported by the tags, or the lookup ended before the listing; a shard  *)
(* directory of incompatible or malformed entries only gives the original  *)
(* link, and every hit is a new link object, distinct from the input.      *)
(***************************************************************************)
C6_OriginalLinkIffNoCandidate ==
    (StoreGet /\ last.raised = "")
    => /\ (last.retval = last.link)
             <=> ~HasHit(Store(last.self), last.link, last.package_name, last.supported_tags)
       /\ last.retval # last.link
             => /\ last.retval # None
                /\ \A l \in Links : last.retval[1].oid # l.oid

\* only a malformed name and a wheel the tags do not support
C6_Witness ==
    /\ StoreGet
    /\ last.link # None
    /\ Lists(Store(last.self), last.link, last.package_name)
    /\ last.supported_tags = <<py2>>
    /\ Shard(Store(last.self), last.link).st = "dir"
    /\ Shard(Store(last.self), last.link).entries = {"README", "pkg-1.0-py3-none-any.whl"}
    /\ last.raised = "" /\ last.retval = last.link

(***************************************************************************)
(* C7.  Round trip: with a cache root and a package the policy allows      *)
(* binaries for, once a single compatible wheel is placed in the directory *)
(* get_path_for_link(link) gives, get with the same link returns a link    *)
(* whose path is get_path_for_link(link) joined with the file's name; for  *)
(* WheelCache so through get_ephem_path_for_link when the persistent store *)
(* misses.                                                                 *)
(***************************************************************************)
C7_RoundTrip ==
    /\ StoreGet /\ Lists(Store(last.self), last.link, last.package_name)
         => \A f \in FileNames :
               (/\ Shard(Store(last.self), last.link) = [st |-> "dir", entries |-> {f}]
                /\ Compatible({f}, last.supported_tags) = {f})
               => /\ last.raised = ""
                  /\ last.retval # None
                  /\ LinkPath(last.retval[1]) =
                        os_path_join(get_path_for_link(Store(last.self), last.link[1]), <<f>>)
    /\ (/\ TieredGet
        /\ HasMiss(cache._wheel_cache, last.link, last.package_name, last.supported_tags)
        /\ Lists(cache._ephem_cache, last.link, last.package_name))
         => \A f \in FileNames :
               (/\ Shard(cache._ephem_cache, last.link) = [st |-> "dir", entries |-> {f}]
                /\ Compatible({f}, last.supported_tags) = {f})
               => /\ last.raised = ""
                  /\ last.retval # None
                  /\ LinkPath(last.retval[1]) =
                        os_path_join(WheelCache_get_ephem_path_for_link(cache, last.link[1]), <<f>>)

\* one wheel under the expanded persistent root, found again through the link with a hash
C7_Witness ==
    /\ last.op = "get" /\ last.self = "SimpleWheelCache"
    /\ last.link = Some(L2)
    /\ Lists(cache._wheel_cache, last.link, last.package_name)
    /\ fs[WheelCache_get_path_for_link(cache, L2)] =
           [st |-> "dir", entries |-> {"pkg-1.0-py2.py3-none-any.whl"}]
    /\ last.retval # None
    /\ LinkPath(last.retval[1]) =
           WheelCache_get_path_for_link(cache, L2) \o "/pkg-1.0-py2.py3-none-any.whl"

(***************************************************************************)
(* C8, as claimed.  For a WheelCache constructed with an absent or empty   *)
(* cache_dir every get is a miss: it returns the original link and raises  *)
(* nothing, whatever is on disk.                                           *)
(***************************************************************************)
C8_AsClaimed ==
    (TieredGet /\ cache.cache_dir = None)
    => last.raised = "" /\ last.retval = last.link

(***************************************************************************)
(* C8, amended.  An absent or empty cache_dir disables the persistent      *)
(* store only: its get always returns the original link, without asking    *)
(* the policy or listing anything, and WheelCache.get then gives what the  *)
(* ephemeral store gives: its hit, the original link when it has no        *)
(* candidate, or the error of listing its shard directory.                 *)
(***************************************************************************)
C8_NoRootLeavesEphemeralStore ==
    cache.cache_dir = None
    => /\ (last.op = "get" /\ last.self = "SimpleWheelCache")
            => /\ last.raised = "" /\ last.retval = last.link
               /\ last.trace = << <<"get", "SimpleWheelCache">> >>
       /\ TieredGet
            => /\ HasHit(cache._ephem_cache, last.link, last.package_name, last.supported_tags)
                    => \E f \in Shard(cache._ephem_cache, last.link).entries :
                          /\ Smallest(f, Compatible(Shard(cache._ephem_cache, last.link).entries,
                                                    last.supported_tags), last.supported_tags)
                          /\ HitOn(cache._ephem_cache, last.link, f, last.raised, last.retval)
               /\ HasMiss(cache._ephem_cache, last.link, last.package_name, last.supported_tags)
                    => last.raised = "" /\ last.retval = last.link
               /\ (/\ Lists(cache._ephem_cache, last.link, last.package_name)
                   /\ Shard(cache._ephem_cache, last.link).st \in OtherErrnos)
                    => last.raised = Shard(cache._ephem_cache, last.link).st

\* no cache root, and the ephemeral store answers with a wheel
C8_Witness ==
    /\ TieredGet
    /\ cache.cache_dir = None
    /\ HasHit(cache._ephem_cache, last.link, last.package_name, last.supported_tags)
    /\ last.raised = ""
    /\ last.retval # last.link

(***************************************************************************)
(* C9.  Listing the shard directory turns exactly two failures into "no    *)
(* candidates", ENOENT and ENOTDIR, and get then returns the original      *)
(* link; any other failure of the listing leaves get as the error it is,   *)
(* never as a miss or a hit.                                               *)
(***************************************************************************)
C9_OnlyMissingOrNotDirIgnored ==
    /\ (StoreGet /\ Lists(Store(last.self), last.link, last.package_name))
         => /\ Shard(Store(last.self), last.link).st \in {"ENOENT", "ENOTDIR"}
                 => last.raised = "" /\ last.retval = last.link
            /\ Shard(Store(last.self), last.link).st \in OtherErrnos
                 => last.raised = Shard(Store(last.self), last.link).st
    /\ (StoreGet /\ last.raised # "")
         => /\ Lists(Store(last.self), last.link, last.package_name)
            /\ last.raised = Shard(Store(last.self), last.link).st
            /\ last.raised \notin {"ENOENT", "ENOTDIR"}
    /\ (TieredGet /\ Lists(cache._wheel_cache, last.link, last.package_name)
                  /\ Shard(cache._wheel_cache, last.link).st \in OtherErrnos)
         => last.raised = Shard(cache._wheel_cache, last.link).st
    /\ (TieredGet /\ HasMiss(cache._wheel_cache, last.link, last.package_name, last.supported_tags)
                  /\ Lists(cache._ephem_cache, last.link, last.package_name)
                  /\ Shard(cache._ephem_cache, last.link).st \in OtherErrnos)
         => last.raised = Shard(cache._ephem_cache, last.link).st

\* a file where the persistent shard directory should be, an unreadable ephemeral one
C9_Witness ==
    /\ TieredGet
    /\ Lists(cache._wheel_cache, last.link, last.package_name)
    /\ Shard(cache._wheel_cache, last.link).st = "ENOTDIR"
    /\ Shard(cache._ephem_cache, last.link).st = "EACCES"
    /\ last.raised = "EACCES"

(***************************************************************************)
(* C10.  WheelCache.cleanup cleans up the persistent and the ephemeral     *)
(* store, both, always: neither cleanup is skipped when the other fails.   *)
(***************************************************************************)
C10_CleanupReachesBothStores ==
    (last.op = "cleanup" /\ last.self = "WheelCache")
    => /\ \E i \in 1..Len(last.trace) : last.trace[i] = <<"cleanup", "SimpleWheelCache">>
       /\ \E i \in 1..Len(last.trace) : last.trace[i] = <<"cleanup", "EphemWheelCache">>

\* removing the temporary directory failed
C10_Witness ==
    /\ last.op = "cleanup" /\ last.self = "WheelCache"
    /\ last.raised = "OSError"
    /\ temp_dir_exists
    /\ \E i \in 1..Len(last.trace) : last.trace[i] = <<"cleanup", "SimpleWheelCache">>

(***************************************************************************)
(* C11.  After EphemWheelCache.cleanup has returned without an error,      *)
(* called on the ephemeral store or through WheelCache.cleanup, the        *)
(* temporary directory is gone and so is every shard directory and         *)
(* artifact under it; and when removing the directory fails, the call      *)
(* raises that failure.                                                    *)
(***************************************************************************)
C11_EphemCleanupRemovesOrRaises ==
    last.op = "cleanup"
    => /\ last.raised = ""
            => /\ ~temp_dir_exists
               /\ \A p \in EphemPaths : fs[p] = Missing
       /\ (\E i \in 1..Len(last.trace) : last.trace[i] = <<"rmtree", "OSError">>)
            => last.raised = "OSError"

\* the ephemeral store's own cleanup removed a directory that was there
C11_Witness ==
    /\ last.op = "cleanup" /\ last.self = "EphemWheelCache"
    /\ last.raised = ""
    /\ \E i \in 1..Len(last.trace) : last.trace[i] = <<"rmtree", "">>
    /\ ~temp_dir_exists
    /\ \A p \in EphemPaths : fs[p] = Missing

(***************************************************************************)
(* C12.  Key derivation: two links with the same url_without_fragment,     *)
(* hash_name and hash, be they different objects, derive the same path     *)
(* parts and the same shard path in every store; two links that differ in  *)
(* any of the three derive different key strings and, the digests of       *)
(* different keys being different, different path parts.                   *)
(***************************************************************************)
SameKeyParts(a, b) ==
    /\ a.url_without_fragment = b.url_without_fragment
    /\ a.hash_name = b.hash_name
    /\ a.hash = b.hash

C12_KeyDerivation ==
    /\ last.op = "_get_cache_path_parts"
         => \A b \in KeyLinks :
               /\ SameKeyParts(last.link[1], b)
                    => /\ key_url_of(b) = last.trace[1][2]
                       /\ _get_cache_path_parts(b) = last.retval[1]
               /\ ~SameKeyParts(last.link[1], b)
                    => /\ key_url_of(b) # last.trace[1][2]
                       /\ _get_cache_path_parts(b) # last.retval[1]
    /\ (last.op \in {"get_path_for_link", "get_ephem_path_for_link"} /\ last.raised = "")
         => \A b \in KeyLinks :
               LET self == IF last.op = "get_ephem_path_for_link" THEN cache._ephem_cache
                           ELSE Store(last.self)
               IN SameKeyParts(last.link[1], b)
                    <=> get_path_for_link(self, b) = last.retval[1]

\* the parts of a link with a hash: another object of the same triple has them,
\* the link with the other hash_name and the link without a hash do not
C12_Witness ==
    /\ last.op = "_get_cache_path_parts"
    /\ last.link = Some(L2)
    /\ last.trace[1][2] = "http://h/p.tgz#sha256=ab12"
    /\ \E b \in KeyLinks :
          b.oid # L2.oid /\ SameKeyParts(L2, b) /\ _get_cache_path_parts(b) = last.retval[1]
    /\ \E b \in KeyLinks :
          /\ b.url_without_fragment = L2.url_without_fragment /\ b.hash = L2.hash
          /\ b.hash_name = Some("md5")
          /\ _get_cache_path_parts(b) # last.retval[1]
    /\ _get_cache_path_parts(L1) # last.retval[1]

(***************************************************************************)
(* C13.  The path get_path_for_link(link) gives in the persistent store is *)
(* the cache root, then "wheels", then four segments of the hex digest of  *)
(* the link's key: two characters, two, two, and all the rest, which put   *)
(* together are the digest; the ephemeral store lays its paths out so      *)
(* under its temporary directory.  WheelCache.get_path_for_link gives what *)
(* the persistent store gives, WheelCache.get_ephem_path_for_link what the *)
(* ephemeral store gives.                                                  *)
(***************************************************************************)
\* the segments of a path, split at "/"
RECURSIVE Segments(_, _)
Segments(path, seg) ==
    IF path = "" THEN <<seg>>
    ELSE IF CharAt(path, 1) = "/" THEN <<seg>> \o Segments(Tail(path), "")
    ELSE Segments(Tail(path), seg \o CharAt(path, 1))

\* path is root, "wheels" and the digest in segments of 2, 2, 2 and the rest
LaidOut(path, root, digest) ==
    /\ Len(path) > Len(root) + 1
    /\ SubSeq(path, 1, Len(root) + 1) = root \o "/"
    /\ LET segs == Segments(SubSeq(path, Len(root) + 2, Len(path)), "") IN
       /\ Len(segs) = 5
       /\ segs[1] = "wheels"
       /\ Len(segs[2]) = 2 /\ Len(segs[3]) = 2 /\ Len(segs[4]) = 2
       /\ Len(segs[5]) = Len(digest) - 6
       /\ segs[2] \o segs[3] \o segs[4] \o segs[5] = digest

C13_ShardPathLayout ==
    (last.op \in {"get_path_for_link", "get_ephem_path_for_link"} /\ last.raised = "")
    => LET digest == sha224_hexdigest(key_url_of(last.link[1]))
           ephem == last.op = "get_ephem_path_for_link" \/ last.self = "EphemWheelCache"
       IN /\ Len(digest) = 56
          /\ ~ephem => /\ cache.cache_dir # None
                       /\ LaidOut(last.retval[1], cache.cache_dir[1], digest)
          /\ ephem => LaidOut(last.retval[1], TempDirPath, digest)
          /\ last.self = "WheelCache"
               => last.retval = get_path_for_link_call(IF ephem THEN cache._ephem_cache
                                                      ELSE cache._wheel_cache, last.link[1]).retval

\* the persistent path of the link with a hash, under the expanded root
C13_Witness ==
    /\ last.op = "get_path_for_link" /\ last.self = "WheelCache"
    /\ last.link = Some(L2)
    /\ last.retval =
          Some("/home/u/c/wheels/d8/66/98/ce0b3ee914b15f0fd693c70e73a7ef0ddcb7d599f300ec81ed")

(***************************************************************************)
(* C14.  The order of the steps of _get_candidates.  A store's get without *)
(* a package name, without a cache root or without a link returns the link *)
(* it was given and has asked nothing of the policy, has computed no path  *)
(* and has listed no directory; so has WheelCache.get without a package    *)
(* name or a link, in both stores.  And whenever a directory is listed,    *)
(* the same lookup has asked the policy just before, the formats it got    *)
(* intersect the allowed formats of the cache, and the path was computed   *)
(* after that.                                                             *)
(***************************************************************************)
C14_ShortCircuitOrder ==
    /\ (StoreGet /\ ~NotShortCircuited(Store(last.self), last.link, last.package_name))
         => /\ last.raised = "" /\ last.retval = last.link
            /\ last.trace = << <<"get", last.self>> >>
    /\ (TieredGet /\ (~Truthy(last.package_name) \/ last.link = None))
         => /\ last.raised = "" /\ last.retval = last.link
            /\ last.trace = << <<"get", "WheelCache">>, <<"get", "SimpleWheelCache">>,
                               <<"get", "EphemWheelCache">> >>
    /\ last.op = "get"
         => \A i \in 1..Len(last.trace) :
               last.trace[i][1] = "listdir"
               => /\ i > 3
                  /\ last.trace[i - 3][1] = "get"
                  /\ last.trace[i - 2][1] = "get_allowed_formats"
                  /\ get_allowed_formats(cache.format_control, last.trace[i - 2][2])
                         \cap Store(last.trace[i - 3][2]).allowed_formats # {}
                  /\ last.trace[i - 1] = <<"get_path_for_link", last.trace[i - 3][2]>>
                  /\ last.trace[i][2] = get_path_for_link(Store(last.trace[i - 3][2]), last.link[1])

\* no package name, and a wheel the tags support in the shard directory of the link
C14_Witness ==
    /\ StoreGet
    /\ last.package_name = None /\ last.link # None
    /\ Truthy(Store(last.self).cache_dir)
    /\ Shard(Store(last.self), last.link).st = "dir"
    /\ Compatible(Shard(Store(last.self), last.link).entries, last.supported_tags) # {}
    /\ last.retval = last.link
    /\ last.trace = << <<"get", last.self>> >>

(***************************************************************************)
(* C15.  While another process creates shard directories and adds files to *)
(* them, and removes or changes nothing, a get in any interleaving with it *)
(* raises nothing, be the directory missing or made in the meantime; and   *)
(* the link it returns is the link it was given, or a link to a name that  *)
(* was in the shard directory when the get listed it and is there when the *)
(* get returns.                                                            *)
(***************************************************************************)
C15_RaceWithWriter ==
    /\ last.op = "listdir" => last.got.raised = ""
    /\ last.op = "get"
         => /\ last.raised = ""
            /\ \/ last.retval = last.link
               \/ \E f \in last.listed :
                     /\ f \in Shard(Store(last.at), last.link).entries
                     /\ HitOn(Store(last.at), last.link, f, last.raised, last.retval)

\* the get listed one wheel; a wheel of a better rank came before the get
\* returned the one it had listed
C15_Witness ==
    /\ last.op = "get" /\ last.self = "WheelCache" /\ last.at = "EphemWheelCache"
    /\ last.supported_tags = <<py3, py2>>
    /\ last.listed = {"pkg-1.0-py2-none-any.whl"}
    /\ Shard(cache._ephem_cache, last.link).entries =
          {"pkg-1.0-py2-none-any.whl", "pkg-1.0-py3-none-any.whl"}
    /\ HitOn(cache._ephem_cache, last.link, "pkg-1.0-py2-none-any.whl", last.raised, last.retval)

(***************************************************************************)
(* C16.  A get keeps nothing from one call to the next.  Whatever gets and *)
(* changes of the disk came before, a get gives what the disk holds now:   *)
(* the smallest compatible wheel of the shard directory (for WheelCache of *)
(* the persistent one, else of the ephemeral one), and the link it was     *)
(* given when there is none.  So a get that missed is followed by a hit    *)
(* once a compatible wheel is in the directory, and a get that hit by a    *)
(* miss once the directory has no compatible wheel left.                   *)
(***************************************************************************)
\* the stores a get of the object kind looks into, in their order
StoresOf(kind) ==
    IF kind = "WheelCache" THEN <<cache._wheel_cache, cache._ephem_cache>> ELSE <<Store(kind)>>

\* the disk has a candidate for a get of the object kind
OnDisk(kind, link, package_name, tags) ==
    \E i \in 1..Len(StoresOf(kind)) : HasHit(StoresOf(kind)[i], link, package_name, tags)

\* the store the candidate comes from
FirstWithHit(kind, link, package_name, tags) ==
    StoresOf(kind)[CHOOSE i \in 1..Len(StoresOf(kind)) :
                      /\ HasHit(StoresOf(kind)[i], link, package_name, tags)
                      /\ \A j \in 1..(i - 1) : ~HasHit(StoresOf(kind)[j], link, package_name, tags)]

C16_NoLookupState ==
    last.op = "get"
    => /\ last.raised = ""
       /\ OnDisk(last.self, last.link, last.package_name, last.supported_tags)
            => LET st == FirstWithHit(last.self, last.link, last.package_name, last.supported_tags)
               IN \E f \in Shard(st, last.link).entries :
                     /\ Smallest(f, Compatible(Shard(st, last.link).entries, last.supported_tags),
                                 last.supported_tags)
                     /\ HitOn(st, last.link, f, last.raised, last.retval)
       /\ ~OnDisk(last.self, last.link, last.package_name, last.supported_tags)
            => last.retval = last.link
       /\ \A i \in 1..Len(last.earlier) :
             /\ (/\ last.earlier[i] = "miss"
                 /\ OnDisk(last.self, last.link, last.package_name, last.supported_tags))
                  => ~Is(last.retval, last.link)
             /\ (/\ last.earlier[i] = "hit"
                 /\ ~OnDisk(last.self, last.link, last.package_name, last.supported_tags))
                  => Is(last.retval, last.link)

\* a hit, then a miss when no compatible wheel was left, then a hit again
C16_Witness ==
    /\ last.op = "get" /\ last.self = "WheelCache"
    /\ last.earlier = <<"miss", "hit">>
    /\ OnDisk(last.self, last.link, last.package_name, last.supported_tags)
    /\ ~Is(last.retval, last.link)

(***************************************************************************)
(* C17.  What SimpleWheelCache.get gives does not depend on the order in   *)
(* which os.listdir returns the names: with the same directory listed in   *)
(* any other order, the get returns a link to the same file, or the same   *)
(* input link, or raises the same error.                                   *)
(***************************************************************************)
C17_ListingOrderIrrelevant ==
    StoreGet
    => \A ord \in Orders[NamesFor({Store(last.self)}, last.link)] :
          LET r == SimpleWheelCache_get(Store(last.self), last.link, last.package_name,
                                        last.supported_tags, ord)
          IN r.raised = last.raised /\ r.retval = last.retval

\* three wheels the tags support, two of them of the best rank: six orders, one answer
C17_Witness ==
    /\ StoreGet
    /\ last.link # None
    /\ Lists(Store(last.self), last.link, last.package_name)
    /\ last.supported_tags = <<py3, py2>>
    /\ Shard(Store(last.self), last.link).entries =
          {"pkg-1.0-py2-none-any.whl", "pkg-1.0-py2.py3-none-any.whl", "pkg-1.0-py3-none-any.whl"}
    /\ Cardinality(Orders[Shard(Store(last.self), last.link).entries]) = 6
    /\ HitOn(Store(last.self), last.link, "pkg-1.0-py2.py3-none-any.whl", last.raised, last.retval)

(***************************************************************************)
(* C18.  get, get_path_for_link and get_ephem_path_for_link only read.  A  *)
(* step that is a call of one of them, be its outcome a hit, a miss or an  *)
(* error, leaves every shard directory of both stores as it was, with its  *)
(* entries, makes no directory, leaves the temporary directory, the cache  *)
(* and its stores with their cache_dir, format_control and allowed_formats *)
(* as they were, and the link it was given is the caller's link as it was. *)
(***************************************************************************)
C18_ReadOnly ==
    [][last'.op \in {"get", "get_path_for_link", "get_ephem_path_for_link"}
         => /\ fs' = fs
            /\ temp_dir_exists' = temp_dir_exists
            /\ cache' = cache
            /\ last'.link \in LinkArgs]_vars

\* a miss in the persistent store and a hit in the ephemeral one; the
\* persistent shard directory, which was listed, is still not there
C18_Witness ==
    /\ TieredGet
    /\ Lists(cache._wheel_cache, last.link, last.package_name)
    /\ Shard(cache._wheel_cache, last.link).st = "ENOENT"
    /\ \E i \in 1..Len(last.trace) :
          last.trace[i] = <<"listdir", get_path_for_link(cache._wheel_cache, last.link[1])>>
    /\ HasHit(cache._ephem_cache, last.link, last.package_name, last.supported_tags)
    /\ ~Is(last.retval, last.link)

(***************************************************************************)
(* C19, as claimed.  Once cleanup has removed the ephemeral directory, a   *)
(* WheelCache.get raises no error: it returns the hit of the persistent    *)
(* store when there is one and the link it was given otherwise.            *)
(***************************************************************************)
C19_AsClaimed ==
    (TieredGet /\ ~temp_dir_exists)
    => /\ last.raised = ""
       /\ HasHit(cache._wheel_cache, last.link, last.package_name, last.supported_tags)
            => ~Is(last.retval, last.link)
       /\ ~HasHit(cache._wheel_cache, last.link, last.package_name, last.supported_tags)
            => Is(last.retval, last.link)

(***************************************************************************)
(* C19, amended.  A cleanup, of WheelCache or of the ephemeral store,      *)
(* leaves every shard directory of the persistent store as it was.  Once   *)
(* it has removed the ephemeral directory, that directory is no candidates *)
(* and no error to a WheelCache.get, which gives what the persistent store *)
(* gives: its hit when it has one, the link it was given when it has none, *)
(* and, as before the cleanup, the error of listing the persistent shard   *)
(* directory when that listing fails with another errno than ENOENT and    *)
(* ENOTDIR.                                                                *)
(***************************************************************************)
C19_CleanupLeavesPersistentStore ==
    /\ [][last'.op = "cleanup"
            => \A p \in ShardPaths(cache._wheel_cache) : fs'[p] = fs[p]]_vars
    /\ []((TieredGet /\ ~temp_dir_exists)
            => /\ HasHit(cache._wheel_cache, last.link, last.package_name, last.supported_tags)
                    => \E f \in Shard(cache._wheel_cache, last.link).entries :
                          /\ Smallest(f, Compatible(Shard(cache._wheel_cache, last.link).entries,
                                                    last.supported_tags), last.supported_tags)
                          /\ HitOn(cache._wheel_cache, last.link, f, last.raised, last.retval)
               /\ HasMiss(cache._wheel_cache, last.link, last.package_name, last.supported_tags)
                    => last.raised = "" /\ last.retval = last.link
               /\ last.raised # ""
                    => /\ Lists(cache._wheel_cache, last.link, last.package_name)
                       /\ last.raised = Shard(cache._wheel_cache, last.link).st
                       /\ last.raised \in OtherErrnos)

\* after the cleanup the persistent shard directory still has its wheel, which
\* the tags do not support; the ephemeral directory is listed, and is not there
C19_Witness ==
    /\ TieredGet
    /\ ~temp_dir_exists
    /\ last.supported_tags = <<py2>>
    /\ Lists(cache._wheel_cache, last.link, last.package_name)
    /\ Shard(cache._wheel_cache, last.link) =
          [st |-> "dir", entries |-> {"pkg-1.0-py3-none-any.whl"}]
    /\ \E i \in 1..Len(last.trace) :
          last.trace[i] = <<"listdir", get_path_for_link(cache._ephem_cache, last.link[1])>>
    /\ last.raised = "" /\ last.retval = last.link

====
